---------------------------- MODULE Spec2Model ----------------------------
(* Model of dz01.py: an in-memory address book (Field / Name / Phone /     *)
(* Birthday, Record, AddressBook), its command functions wrapped by        *)
(* input_error, and the main() read-dispatch loop.                         *)
(*                                                                         *)
(* Every piece of text (a name, a phone number, a date) is a sequence of   *)
(* one-character strings, so that stripping non-digits, parsing a date and *)
(* formatting a date are computed character by character.                  *)
EXTENDS Integers, Sequences, FiniteSets, TLC

VARIABLES book, pc, last, out, added, onlyAdds

vars == <<book, pc, last, out, added, onlyAdds>>

(***************************************************************************)
(* Bounds of the model.                                                    *)
(***************************************************************************)
\* Longest phone list a record is allowed to grow to.
MaxPhones == 2

(***************************************************************************)
(* Program constants.                                                      *)
(***************************************************************************)
PhoneLen == 10
WindowDays == 7

(***************************************************************************)
(* Text.                                                                   *)
(***************************************************************************)
Rep(c, n) == [i \in 1..n |-> c]

DigitSeq == <<"0", "1", "2", "3", "4", "5", "6", "7", "8", "9">>

\* What the regular expression \d matches.
IsDigit(c) == \E i \in DOMAIN DigitSeq : DigitSeq[i] = c

DigitVal(c) == (CHOOSE i \in DOMAIN DigitSeq : DigitSeq[i] = c) - 1

\* re.sub(r'\D', '', text)
StripNonDigits(text) == SelectSeq(text, IsDigit)

AllDigits(text) == \A i \in DOMAIN text : IsDigit(text[i])

RECURSIVE NumVal(_)
NumVal(text) ==
    IF text = <<>> THEN 0
    ELSE 10 * NumVal(SubSeq(text, 1, Len(text) - 1)) + DigitVal(text[Len(text)])

\* Decimal digits of n >= 0, without padding.
RECURSIVE NumText(_)
NumText(n) ==
    IF n < 10 THEN <<DigitSeq[n + 1]>>
    ELSE NumText(n \div 10) \o <<DigitSeq[(n % 10) + 1]>>

\* Decimal digits of n, zero-padded on the left to at least w characters.
Pad(n, w) ==
    LET t == NumText(n)
    IN  IF Len(t) >= w THEN t ELSE Rep("0", w - Len(t)) \o t

(***************************************************************************)
(* Exceptions and results.  A call either returns or raises; what it did   *)
(* to the objects it was given before raising is part of its result.       *)
(***************************************************************************)
NoExc == ""

PhoneMsg == "Phone number must contain exactly 10 digits."
NameMsg == "Name cannot be empty."
BirthdayMsg == "Invalid date format. Use DD.MM.YYYY"
OldPhoneMsg == "Old phone number not found."
DayRangeMsg == "day is out of range for month"
FormatMsg == "time data does not match format '%d.%m.%Y'"
YearRangeMsg == "year is out of range"
UnpackFewMsg == "not enough values to unpack"
UnpackManyMsg == "too many values to unpack"
IndexMsg == "list index out of range"

(***************************************************************************)
(* Field, Name, Phone.                                                     *)
(***************************************************************************)
\* Name.__init__
Name(name) ==
    IF name = <<>>
    THEN [exc |-> "ValueError", msg |-> NameMsg, value |-> <<>>]
    ELSE [exc |-> NoExc, msg |-> "", value |-> name]

\* Mutant of is_valid: a number of up to 10 digits passes.
is_valid_AtMost(number) == Len(number) <= PhoneLen

\* Phone.is_valid
is_valid(number) == Len(number) = PhoneLen

\* Phone.__init__
Phone(number) ==
    LET stripped == StripNonDigits(number)
    IN  IF ~is_valid(stripped)
        THEN [exc |-> "ValueError", msg |-> PhoneMsg, value |-> <<>>]
        ELSE [exc |-> NoExc, msg |-> "", value |-> stripped]

(***************************************************************************)
(* Calendar dates (datetime.date): proleptic Gregorian, years 1..9999.     *)
(***************************************************************************)
IsLeap(y) == (y % 4 = 0) /\ ((y % 100 # 0) \/ (y % 400 = 0))

DaysInMonth(y, m) ==
    IF m = 2 THEN (IF IsLeap(y) THEN 29 ELSE 28)
    ELSE IF m \in {4, 6, 9, 11} THEN 30 ELSE 31

ValidDate(y, m, d) ==
    /\ y \in 1..9999
    /\ m \in 1..12
    /\ d \in 1..DaysInMonth(y, m)

Date(y, m, d) == [year |-> y, month |-> m, day |-> d]

RECURSIVE DaysBeforeMonth(_, _)
DaysBeforeMonth(y, m) ==
    IF m = 1 THEN 0 ELSE DaysBeforeMonth(y, m - 1) + DaysInMonth(y, m - 1)

DaysBeforeYear(y) ==
    LET p == y - 1
    IN  p * 365 + (p \div 4) - (p \div 100) + (p \div 400)

\* date.toordinal(): 0001-01-01 is day 1.
ToOrdinal(dt) ==
    DaysBeforeYear(dt.year) + DaysBeforeMonth(dt.year, dt.month) + dt.day

\* date.weekday(): Monday is 0, Sunday is 6.
Weekday(dt) == (ToOrdinal(dt) + 6) % 7

\* d1 < d2 on dates
DateLess(d1, d2) ==
    \/ d1.year < d2.year
    \/ d1.year = d2.year /\ d1.month < d2.month
    \/ d1.year = d2.year /\ d1.month = d2.month /\ d1.day < d2.day

\* (d1 - d2).days
DaysBetween(d1, d2) == ToOrdinal(d1) - ToOrdinal(d2)

NextDay(dt) ==
    IF dt.day < DaysInMonth(dt.year, dt.month)
    THEN Date(dt.year, dt.month, dt.day + 1)
    ELSE IF dt.month < 12 THEN Date(dt.year, dt.month + 1, 1)
    ELSE Date(dt.year + 1, 1, 1)

\* dt + timedelta(days=n), n >= 0
RECURSIVE AddDays(_, _)
AddDays(dt, n) == IF n = 0 THEN dt ELSE AddDays(NextDay(dt), n - 1)

\* date.replace(year=y): raises ValueError when the result is no date.
ReplaceYear(dt, y) ==
    IF ValidDate(y, dt.month, dt.day)
    THEN [exc |-> NoExc, msg |-> "", date |-> Date(y, dt.month, dt.day)]
    ELSE [exc |-> "ValueError", msg |-> DayRangeMsg, date |-> dt]

\* datetime.strptime(text, "%d.%m.%Y").date(): the text must be
\* <day>.<month>.<year> with a day of one or two digits in 1..31, a month of
\* one or two digits in 1..12 and a year of exactly four digits, and the
\* three must name a date of the calendar.
Strptime(text) ==
    LET dots == {i \in DOMAIN text : text[i] = "."}
        bad(m) == [exc |-> "ValueError", msg |-> m, date |-> Date(0, 0, 0)]
    IN  IF Cardinality(dots) # 2 THEN bad(FormatMsg)
        ELSE
          LET i1 == CHOOSE i \in dots : \A j \in dots : i <= j
              i2 == CHOOSE i \in dots : \A j \in dots : j <= i
              dayT == SubSeq(text, 1, i1 - 1)
              monT == SubSeq(text, i1 + 1, i2 - 1)
              yearT == SubSeq(text, i2 + 1, Len(text))
          IN  IF ~(/\ AllDigits(dayT) /\ Len(dayT) \in 1..2
                   /\ NumVal(dayT) \in 1..31
                   /\ AllDigits(monT) /\ Len(monT) \in 1..2
                   /\ NumVal(monT) \in 1..12
                   /\ AllDigits(yearT) /\ Len(yearT) = 4)
              THEN bad(FormatMsg)
              ELSE IF NumVal(yearT) < 1 THEN bad(YearRangeMsg)
              ELSE IF ~ValidDate(NumVal(yearT), NumVal(monT), NumVal(dayT))
              THEN bad(DayRangeMsg)
              ELSE [exc |-> NoExc, msg |-> "",
                    date |-> Date(NumVal(yearT), NumVal(monT), NumVal(dayT))]

\* date.strftime("%d.%m.%Y").  The C library formats %Y: some pad the year
\* to four digits, others (glibc) print it without padding.
Strftime(dt, padYear) ==
    Pad(dt.day, 2) \o <<".">> \o Pad(dt.month, 2) \o <<".">>
        \o (IF padYear THEN Pad(dt.year, 4) ELSE NumText(dt.year))

(***************************************************************************)
(* Birthday.                                                               *)
(***************************************************************************)
\* Birthday.__init__: keeps the parsed date and the text as given.
Birthday(value) ==
    LET parsed == Strptime(value)
    IN  IF parsed.exc # NoExc
        THEN [exc |-> "ValueError", msg |-> BirthdayMsg,
              value |-> <<>>, date |-> parsed.date]
        ELSE [exc |-> NoExc, msg |-> "", value |-> value, date |-> parsed.date]

(***************************************************************************)
(* Record.  birthday is <<>> (None) or <<b>> with b a Birthday.            *)
(***************************************************************************)
None == <<>>

\* Record.__init__
Record(name) ==
    LET n == Name(name)
    IN  [exc |-> n.exc, msg |-> n.msg,
         rec |-> [name |-> n.value, phones |-> <<>>, birthday |-> None]]

\* Mutant of add_phone: the new phone replaces the list.
add_phone_Replaces(rec, phone_number) ==
    LET phone == Phone(phone_number)
    IN  IF phone.exc # NoExc
        THEN [exc |-> phone.exc, msg |-> phone.msg, rec |-> rec]
        ELSE [exc |-> NoExc, msg |-> "",
              rec |-> [rec EXCEPT !.phones = <<phone.value>>]]

\* Record.add_phone
add_phone(rec, phone_number) ==
    LET phone == Phone(phone_number)
    IN  IF phone.exc # NoExc
        THEN [exc |-> phone.exc, msg |-> phone.msg, rec |-> rec]
        ELSE [exc |-> NoExc, msg |-> "",
              rec |-> [rec EXCEPT !.phones = Append(@, phone.value)]]

\* Record.remove_phone
remove_phone(rec, phone_number) ==
    LET clean_number == StripNonDigits(phone_number)
        keep(p) == p # clean_number
    IN  [exc |-> NoExc, msg |-> "",
         rec |-> [rec EXCEPT !.phones = SelectSeq(@, keep)]]

\* Mutant of FirstMatch: the last phone equal to clean_old.
FirstMatch_Last(phones, clean_old) ==
    IF \E i \in DOMAIN phones : phones[i] = clean_old
    THEN CHOOSE i \in DOMAIN phones :
            /\ phones[i] = clean_old
            /\ \A j \in (i + 1)..Len(phones) : phones[j] # clean_old
    ELSE 0

\* The index edit_phone's loop stops at: the first phone equal to clean_old
\* (0 when the loop runs to its end).
FirstMatch(phones, clean_old) ==
    IF \E i \in DOMAIN phones : phones[i] = clean_old
    THEN CHOOSE i \in DOMAIN phones :
            /\ phones[i] = clean_old
            /\ \A j \in 1..(i - 1) : phones[j] # clean_old
    ELSE 0

\* Record.edit_phone
edit_phone(rec, old_number, new_number) ==
    LET clean_old == StripNonDigits(old_number)
        idx == FirstMatch(rec.phones, clean_old)
        phone == Phone(new_number)
    IN  IF idx = 0
        THEN [exc |-> "ValueError", msg |-> OldPhoneMsg, rec |-> rec]
        ELSE IF phone.exc # NoExc
        THEN [exc |-> phone.exc, msg |-> phone.msg, rec |-> rec]
        ELSE [exc |-> NoExc, msg |-> "",
              rec |-> [rec EXCEPT !.phones[idx] = phone.value]]

\* Record.find_phone: <<>> (None) or <<the first matching phone>>.
find_phone(rec, phone_number) ==
    LET clean_number == StripNonDigits(phone_number)
        idx == FirstMatch(rec.phones, clean_number)
    IN  IF idx = 0 THEN None ELSE <<rec.phones[idx]>>

\* Record.add_birthday
add_birthday(rec, date_str) ==
    LET b == Birthday(date_str)
    IN  IF b.exc # NoExc
        THEN [exc |-> b.exc, msg |-> b.msg, rec |-> rec]
        ELSE [exc |-> NoExc, msg |-> "",
              rec |-> [rec EXCEPT !.birthday =
                          <<[value |-> b.value, date |-> b.date]>>]]

\* Record.__str__: the parts of the line, in order.
RecordStr(rec) ==
    [name |-> rec.name, phones |-> rec.phones,
     birthday |-> IF rec.birthday # None THEN <<rec.birthday[1].value>>
                  ELSE <<>>]

(***************************************************************************)
(* AddressBook: a dict, kept as its entries in insertion order.            *)
(***************************************************************************)
Keys(data) == {data[i].key : i \in DOMAIN data}

KeyIndex(data, name) == CHOOSE i \in DOMAIN data : data[i].key = name

\* Mutant of SetItem: every store adds an entry.
SetItem_Appends(data, key, record) ==
    Append(data, [key |-> key, record |-> record])

\* self.data[key] = record: replaces the value of a key the dict already
\* has, in place; appends a new key.
SetItem(data, key, record) ==
    IF key \in Keys(data)
    THEN [data EXCEPT ![KeyIndex(data, key)].record = record]
    ELSE Append(data, [key |-> key, record |-> record])

\* AddressBook.add_record
add_record(data, record) == SetItem(data, record.name, record)

\* AddressBook.find: <<>> (None) or <<record>>.
find(data, name) ==
    IF name \in Keys(data) THEN <<data[KeyIndex(data, name)].record>>
    ELSE None

\* AddressBook.delete
delete(data, name) ==
    IF name \in Keys(data)
    THEN LET other(e) == e.key # name IN SelectSeq(data, other)
    ELSE data

\* Lines 95-98: the birthday's month and day in today's year, moved to the
\* next year when that is before today.  Either replace() can raise.
BirthdayThisYear(birthday, today) ==
    LET first == ReplaceYear(birthday, today.year)
    IN  IF first.exc # NoExc THEN first
        ELSE IF DateLess(first.date, today)
        THEN ReplaceYear(first.date, today.year + 1)
        ELSE first

\* Line 102
InWindow(days_diffrence) == 0 <= days_diffrence /\ days_diffrence <= WindowDays

\* Mutant of CongratulationDate: Sunday is not moved.
CongratulationDate_SaturdayOnly(birthday_this_year) ==
    IF Weekday(birthday_this_year) = 5 THEN AddDays(birthday_this_year, 2)
    ELSE birthday_this_year

\* Mutant of CongratulationDate: Saturday is moved by one day.
CongratulationDate_NextDay(birthday_this_year) ==
    IF Weekday(birthday_this_year) \in {5, 6} THEN AddDays(birthday_this_year, 1)
    ELSE birthday_this_year

\* Lines 103-108
CongratulationDate(birthday_this_year) ==
    IF Weekday(birthday_this_year) = 5 THEN AddDays(birthday_this_year, 2)
    ELSE IF Weekday(birthday_this_year) = 6 THEN AddDays(birthday_this_year, 1)
    ELSE birthday_this_year

\* Lines 92-110: what one record adds to upcoming_birthdays, or the
\* exception its turn of the loop raises.
UpcomingOf(record, today, padYear) ==
    LET ok(l) == [exc |-> NoExc, msg |-> "", list |-> l]
        fail(r) == [exc |-> r.exc, msg |-> r.msg, list |-> <<>>]
    IN  IF record.birthday = None THEN ok(<<>>)
        ELSE
          LET birthday_str == Strftime(record.birthday[1].date, padYear)
              birthday == Strptime(birthday_str)
          IN  IF birthday.exc # NoExc THEN fail(birthday)
              ELSE
                LET this_year == BirthdayThisYear(birthday.date, today)
                IN  IF this_year.exc # NoExc THEN fail(this_year)
                    ELSE IF InWindow(DaysBetween(this_year.date, today))
                    THEN ok(<<[name |-> record.name,
                               congratulation_date |->
                                   Strftime(CongratulationDate(this_year.date),
                                            padYear)]>>)
                    ELSE ok(<<>>)

\* The loop of lines 91-110 from entry i on, upcoming being the list so far.
RECURSIVE UpcomingLoop(_, _, _, _, _)
UpcomingLoop(data, i, upcoming, today, padYear) ==
    IF i > Len(data) THEN [exc |-> NoExc, msg |-> "", list |-> upcoming]
    ELSE LET one == UpcomingOf(data[i].record, today, padYear)
         IN  IF one.exc # NoExc THEN one
             ELSE UpcomingLoop(data, i + 1, upcoming \o one.list, today, padYear)

\* AddressBook.get_upcoming_birthdays; today is what datetime.today() gives.
get_upcoming_birthdays(data, today, padYear) ==
    UpcomingLoop(data, 1, <<>>, today, padYear)

(***************************************************************************)
(* Command functions.  Each result is [exc, msg, ret, data, stop]: the     *)
(* exception raised (NoExc for none) with its message, the string          *)
(* returned, the address book as the call left it, and whether main's loop *)
(* is to end.  A returned string is [error, text, items]: error says it is *)
(* "Error: " followed by text; items are the values formatted into it.     *)
(***************************************************************************)
Text(t) == [error |-> FALSE, text |-> t, items |-> <<>>]

TextWith(t, l) == [error |-> FALSE, text |-> t, items |-> l]

NoText == Text("")

Returns(ret, data) ==
    [exc |-> NoExc, msg |-> "", ret |-> ret, data |-> data, stop |-> FALSE]

Raises(exc, msg, data) ==
    [exc |-> exc, msg |-> msg, ret |-> NoText, data |-> data, stop |-> FALSE]

\* The record found in the book is the object the book holds: a change to
\* it is a change to the book's entry.
Mutated(data, name, rec) ==
    [data EXCEPT ![KeyIndex(data, name)].record = rec]

\* input_error: KeyError, ValueError and IndexError become a returned string.
input_error(r) ==
    IF r.exc \in {"KeyError", "ValueError", "IndexError"}
    THEN Returns([error |-> TRUE, text |-> r.msg, items |-> <<>>], r.data)
    ELSE r

\* add_contact, undecorated
add_contact_body(args, data) ==
    IF Len(args) < 2 THEN Raises("ValueError", UnpackFewMsg, data)
    ELSE
      LET name == args[1]
          phone == args[2]
          found == find(data, name)
          made == Record(name)
      IN  IF found = None /\ made.exc # NoExc
          THEN Raises(made.exc, made.msg, data)
          ELSE
            LET record == IF found = None THEN made.rec ELSE found[1]
                data1 == IF found = None THEN add_record(data, record) ELSE data
                message == IF found = None THEN "Contact added."
                           ELSE "Contact updated."
                phoned == add_phone(record, phone)
            IN  IF phone = <<>> THEN Returns(Text(message), data1)
                ELSE IF phoned.exc # NoExc
                THEN Raises(phoned.exc, phoned.msg, data1)
                ELSE Returns(Text(message), Mutated(data1, name, phoned.rec))

add_contact(args, data) == input_error(add_contact_body(args, data))

\* change_contact, undecorated
change_contact_body(args, data) ==
    IF Len(args) < 3 THEN Raises("ValueError", UnpackFewMsg, data)
    ELSE IF Len(args) > 3 THEN Raises("ValueError", UnpackManyMsg, data)
    ELSE
      LET name == args[1]
          found == find(data, name)
          edited == edit_phone(found[1], args[2], args[3])
      IN  IF found = None THEN Returns(Text("Contact not found."), data)
          ELSE IF edited.exc # NoExc THEN Raises(edited.exc, edited.msg, data)
          ELSE Returns(Text("Phone number updated."),
                       Mutated(data, name, edited.rec))

change_contact(args, data) == input_error(change_contact_body(args, data))

\* show_phones, undecorated
show_phones_body(args, data) ==
    IF Len(args) < 1 THEN Raises("IndexError", IndexMsg, data)
    ELSE
      LET found == find(data, args[1])
      IN  IF found # None
          THEN Returns(TextWith("Phone numbers for", found[1].phones), data)
          ELSE Returns(Text("Contact not found."), data)

show_phones(args, data) == input_error(show_phones_body(args, data))

\* show_all
show_all(data) ==
    input_error(
        IF data = <<>> THEN Returns(Text("Address book is empty."), data)
        ELSE Returns(TextWith("", [i \in DOMAIN data |-> RecordStr(data[i].record)]),
                     data))

\* add_birthday (the command), undecorated
add_birthday_body(args, data) ==
    IF Len(args) < 2 THEN Raises("ValueError", UnpackFewMsg, data)
    ELSE IF Len(args) > 2 THEN Raises("ValueError", UnpackManyMsg, data)
    ELSE
      LET name == args[1]
          found == find(data, name)
          set == add_birthday(found[1], args[2])
      IN  IF found = None THEN Returns(Text("Contact not found."), data)
          ELSE IF set.exc # NoExc THEN Raises(set.exc, set.msg, data)
          ELSE Returns(Text("Birthday added."), Mutated(data, name, set.rec))

add_birthday_cmd(args, data) == input_error(add_birthday_body(args, data))

\* show_birthday, undecorated
show_birthday_body(args, data) ==
    IF Len(args) < 1 THEN Raises("IndexError", IndexMsg, data)
    ELSE
      LET found == find(data, args[1])
      IN  IF found = None THEN Returns(Text("Contact not found."), data)
          ELSE IF found[1].birthday = None
          THEN Returns(Text("Birthday not set."), data)
          ELSE Returns(TextWith("birthday:", <<found[1].birthday[1].value>>), data)

show_birthday(args, data) == input_error(show_birthday_body(args, data))

\* birthdays, undecorated
birthdays_body(args, data, today, padYear) ==
    LET upcoming == get_upcoming_birthdays(data, today, padYear)
    IN  IF upcoming.exc # NoExc THEN Raises(upcoming.exc, upcoming.msg, data)
        ELSE IF upcoming.list = <<>>
        THEN Returns(Text("No upcoming birthdays this week."), data)
        ELSE Returns(TextWith("Upcoming birthdays:", upcoming.list), data)

birthdays(args, data, today, padYear) ==
    input_error(birthdays_body(args, data, today, padYear))

(***************************************************************************)
(* main(): one turn of the loop on a line, given as the tokens             *)
(* user_input.strip().split() yields: the command word, then the           *)
(* arguments.  A blank line yields no token.                               *)
(***************************************************************************)
\* parse_input
parse_input(parts) ==
    IF parts = <<>>
    THEN [exc |-> "IndexError", msg |-> IndexMsg, command |-> "", args |-> <<>>]
    ELSE [exc |-> NoExc, msg |-> "", command |-> Head(parts), args |-> Tail(parts)]

\* The branch of main()'s if-chain a line takes.
main_branch(parts) ==
    LET parsed == parse_input(parts)
        command == parsed.command
    IN  IF parsed.exc # NoExc THEN "raise"
        ELSE IF command \in {"close", "exit"} THEN "close"
        ELSE IF command \in {"hello", "add", "change", "phone", "all",
                            "add-birthday", "show-birthday", "birthdays"}
        THEN command
        ELSE "else"

(***************************************************************************)
(* Inputs.  The second contact is given fewer phone and date texts than    *)
(* the first.                                                              *)
(***************************************************************************)
Alice == <<"A", "l", "i", "c", "e">>
Bob == <<"B", "o", "b">>
Names == {Alice, Bob}

\* 1111111111, 111-111-1111, 2222222222 and 12345
Ones == Rep("1", PhoneLen)
OnesDashed == Rep("1", 3) \o <<"-">> \o Rep("1", 3) \o <<"-">> \o Rep("1", 4)
Twos == Rep("2", PhoneLen)
Short == <<"1", "2", "3", "4", "5">>

\* 08.06.1990, 29.02.2000, 01.01.0987, 31.02.2024 and 2024-02-29
June8 == <<"0", "8", ".", "0", "6", ".", "1", "9", "9", "0">>
Feb29 == <<"2", "9", ".", "0", "2", ".", "2", "0", "0", "0">>
Jan1Old == <<"0", "1", ".", "0", "1", ".", "0", "9", "8", "7">>
Feb31 == <<"3", "1", ".", "0", "2", ".", "2", "0", "2", "4">>
IsoDate == <<"2", "0", "2", "4", "-", "0", "2", "-", "2", "9">>

\* <<name, phone text>>
NamePhones ==
    {<<Alice, t>> : t \in {OnesDashed, Twos, Short}}
        \cup {<<Bob, t>> : t \in {Twos, Short}}

\* <<name, old phone text, new phone text>>
NameOldNews ==
    {<<Alice, o, w>> : o \in {OnesDashed, Twos}, w \in {Ones, Twos, Short}}
        \cup {<<Bob, Twos, w>> : w \in {Twos, Short}}

\* <<name, date text>>
NameDates ==
    {<<Alice, d>> : d \in {June8, Jan1Old, Feb31}}
        \cup {<<Bob, d>> : d \in {Feb29, IsoDate}}

\* The days datetime.today() is read on.
Todays ==
    { Date(2024, 6, 10), Date(2024, 6, 1), Date(2024, 5, 31), Date(2023, 6, 8),
      Date(2025, 6, 2), Date(2024, 12, 28), Date(2024, 2, 25) }

NoDate == Date(0, 0, 0)

(***************************************************************************)
(* State.                                                                  *)
(*   book      the AddressBook's data                                      *)
(*   pc        "running", "closed" (the loop ended on close or exit) or    *)
(*             "crashed" (an exception left main)                          *)
(*   last      the last line read or the last call made                    *)
(*   out       what it printed, returned or raised                         *)
(*   added     history: the <<name, digits>> of the add commands so far,   *)
(*             kept while every line read was an add with a valid phone    *)
(*   onlyAdds  history: every line read so far was such an add             *)
(***************************************************************************)
Printed(ret) ==
    [kind |-> "print", exc |-> NoExc, error |-> ret.error, text |-> ret.text,
     items |-> ret.items]

Traceback(exc, msg) ==
    [kind |-> "traceback", exc |-> exc, error |-> FALSE, text |-> msg,
     items |-> <<>>]

Returned(items) ==
    [kind |-> "return", exc |-> NoExc, error |-> FALSE, text |-> "",
     items |-> items]

Raised(exc, msg) ==
    [kind |-> "raise", exc |-> exc, error |-> FALSE, text |-> msg,
     items |-> <<>>]

Bounded(data) == \A i \in DOMAIN data : Len(data[i].record.phones) <= MaxPhones

Init ==
    /\ book = <<>>
    /\ pc = "running"
    /\ last = [via |-> "start", op |-> "", args |-> <<>>, today |-> NoDate]
    /\ out = Printed(Text("Welcome to the assistant bot!"))
    /\ added = <<>>
    /\ onlyAdds = TRUE

\* An add command whose phone Phone() accepts.
IsValidAdd(parts) ==
    /\ Len(parts) >= 3
    /\ Head(parts) = "add"
    /\ Len(StripNonDigits(parts[3])) = PhoneLen

\* main() reads the line, takes the branch and prints what the branch
\* yields, r; an exception leaves main().
Turn(parts, today, branch, r) ==
    /\ main_branch(parts) = branch
    /\ Bounded(r.data)
    /\ book' = r.data
    /\ pc' = IF r.exc # NoExc THEN "crashed"
             ELSE IF r.stop THEN "closed" ELSE "running"
    /\ out' = IF r.exc # NoExc THEN Traceback(r.exc, r.msg) ELSE Printed(r.ret)
    /\ last' = [via |-> "main",
                op |-> IF parts = <<>> THEN "" ELSE Head(parts),
                args |-> IF parts = <<>> THEN <<>> ELSE Tail(parts),
                today |-> today]
    /\ onlyAdds' = (onlyAdds /\ IsValidAdd(parts))
    /\ added' = IF onlyAdds /\ IsValidAdd(parts)
                THEN Append(added, <<parts[2], StripNonDigits(parts[3])>>)
                ELSE <<>>

AddArgs == {<<>>, <<Alice>>, <<Alice, Twos, Ones>>} \cup NamePhones

ChangeArgs ==
    {<<>>, <<Alice>>, <<Alice, Ones>>, <<Alice, Ones, Twos, Twos>>}
        \cup NameOldNews

NameArgs == {<<>>} \cup {<<n>> : n \in Names}

BirthdayArgs == {<<>>, <<Alice>>, <<Alice, June8, June8>>} \cup NameDates

\* A blank line: parse_input raises outside every handler.
Blank ==
    /\ pc = "running"
    /\ \E parsed \in {parse_input(<<>>)} :
           Turn(<<>>, NoDate, "raise", Raises(parsed.exc, parsed.msg, book))

Close ==
    /\ pc = "running"
    /\ \E c \in {"close", "exit"} :
           Turn(<<c>>, NoDate, "close",
                [Returns(Text("Good bye!"), book) EXCEPT !.stop = TRUE])

Hello ==
    /\ pc = "running"
    /\ Turn(<<"hello">>, NoDate, "hello", Returns(Text("How can I help you?"), book))

Add ==
    /\ pc = "running"
    /\ \E args \in AddArgs :
           \E r \in {add_contact(args, book)} :
               Turn(<<"add">> \o args, NoDate, "add", r)

Change ==
    /\ pc = "running"
    /\ \E args \in ChangeArgs :
           \E r \in {change_contact(args, book)} :
               Turn(<<"change">> \o args, NoDate, "change", r)

ShowPhones ==
    /\ pc = "running"
    /\ \E args \in NameArgs :
           \E r \in {show_phones(args, book)} :
               Turn(<<"phone">> \o args, NoDate, "phone", r)

ShowAll ==
    /\ pc = "running"
    /\ \E r \in {show_all(book)} : Turn(<<"all">>, NoDate, "all", r)

AddBirthday ==
    /\ pc = "running"
    /\ \E args \in BirthdayArgs :
           \E r \in {add_birthday_cmd(args, book)} :
               Turn(<<"add-birthday">> \o args, NoDate, "add-birthday", r)

ShowBirthday ==
    /\ pc = "running"
    /\ \E args \in NameArgs :
           \E r \in {show_birthday(args, book)} :
               Turn(<<"show-birthday">> \o args, NoDate, "show-birthday", r)

\* datetime.today() and the C library's %Y are the environment's.
Birthdays ==
    /\ pc = "running"
    /\ \E today \in Todays, padYear \in BOOLEAN :
           \E r \in {birthdays(<<>>, book, today, padYear)} :
               Turn(<<"birthdays">>, today, "birthdays", r)

Unknown ==
    /\ pc = "running"
    /\ Turn(<<"help">>, NoDate, "else", Returns(Text("Invalid command."), book))

Next ==
    \/ Blank
    \/ Close
    \/ Hello
    \/ Add
    \/ Change
    \/ ShowPhones
    \/ ShowAll
    \/ AddBirthday
    \/ ShowBirthday
    \/ Birthdays
    \/ Unknown

\* A session of main().
Spec == Init /\ [][Next]_vars

(***************************************************************************)
(* The classes and the command functions called directly, as a program     *)
(* importing the module calls them.                                        *)
(***************************************************************************)
Called(op, args, today) ==
    /\ last' = [via |-> "api", op |-> op, args |-> args, today |-> today]
    /\ UNCHANGED <<pc, added, onlyAdds>>

\* A method of the record book.find(args[1]) gave; r is [exc, msg, rec].
OnRecord(op, args, r, ret) ==
    /\ Bounded(Mutated(book, args[1], r.rec))
    /\ book' = Mutated(book, args[1], r.rec)
    /\ out' = IF r.exc # NoExc THEN Raised(r.exc, r.msg) ELSE Returned(ret)
    /\ Called(op, args, NoDate)

\* Records a caller builds before it stores them.
NewRecords ==
    { Record(Alice).rec,
      add_phone(Record(Alice).rec, OnesDashed).rec,
      Record(Bob).rec,
      add_birthday(add_phone(Record(Bob).rec, Twos).rec, Feb29).rec }

\* Record(name), not stored
ApiRecord ==
    \E name \in Names \cup {<<>>} :
        \E r \in {Record(name)} :
            /\ out' = IF r.exc # NoExc THEN Raised(r.exc, r.msg)
                      ELSE Returned(<<r.rec>>)
            /\ book' = book
            /\ Called("Record", <<name>>, NoDate)

ApiAddRecord ==
    \E record \in NewRecords :
        /\ book' = add_record(book, record)
        /\ out' = Returned(<<>>)
        /\ Called("add_record", <<record>>, NoDate)

ApiFind ==
    \E name \in Names :
        /\ out' = Returned(find(book, name))
        /\ book' = book
        /\ Called("find", <<name>>, NoDate)

ApiDelete ==
    \E name \in Names :
        /\ book' = delete(book, name)
        /\ out' = Returned(<<>>)
        /\ Called("delete", <<name>>, NoDate)

ApiAddPhone ==
    \E args \in NamePhones :
        /\ args[1] \in Keys(book)
        /\ \E r \in {add_phone(find(book, args[1])[1], args[2])} :
               OnRecord("add_phone", args, r, <<>>)

ApiRemovePhone ==
    \E args \in NamePhones :
        /\ args[1] \in Keys(book)
        /\ \E r \in {remove_phone(find(book, args[1])[1], args[2])} :
               OnRecord("remove_phone", args, r, <<>>)

ApiEditPhone ==
    \E args \in NameOldNews :
        /\ args[1] \in Keys(book)
        /\ \E r \in {edit_phone(find(book, args[1])[1], args[2], args[3])} :
               OnRecord("edit_phone", args, r, <<TRUE>>)

ApiFindPhone ==
    \E args \in {<<Alice, OnesDashed>>, <<Alice, Twos>>, <<Bob, Short>>} :
        /\ args[1] \in Keys(book)
        /\ out' = Returned(find_phone(find(book, args[1])[1], args[2]))
        /\ book' = book
        /\ Called("find_phone", args, NoDate)

ApiAddBirthday ==
    \E args \in NameDates :
        /\ args[1] \in Keys(book)
        /\ \E r \in {add_birthday(find(book, args[1])[1], args[2])} :
               OnRecord("add_birthday", args, r, <<>>)

\* datetime.today() and the C library's %Y are the environment's.
ApiUpcoming ==
    \E today \in Todays, padYear \in BOOLEAN :
        \E r \in {get_upcoming_birthdays(book, today, padYear)} :
            /\ out' = IF r.exc # NoExc THEN Raised(r.exc, r.msg)
                      ELSE Returned(r.list)
            /\ book' = book
            /\ Called("get_upcoming_birthdays", <<>>, today)

\* A command function returns its string.
Answered(r) ==
    IF r.exc # NoExc THEN Raised(r.exc, r.msg)
    ELSE [Printed(r.ret) EXCEPT !.kind = "return"]

ApiAddContact ==
    \E args \in {<<Alice>>} \cup NamePhones :
        \E r \in {add_contact(args, book)} :
            /\ Bounded(r.data)
            /\ book' = r.data
            /\ out' = Answered(r)
            /\ Called("add_contact", args, NoDate)

ApiChangeContact ==
    \E args \in { <<Alice, Ones>>, <<Alice, OnesDashed, Twos>>,
                   <<Alice, Twos, Short>>, <<Bob, Twos, Short>> } :
        \E r \in {change_contact(args, book)} :
            /\ book' = r.data
            /\ out' = Answered(r)
            /\ Called("change_contact", args, NoDate)

NextLib ==
    \/ ApiRecord
    \/ ApiAddRecord
    \/ ApiFind
    \/ ApiDelete
    \/ ApiAddPhone
    \/ ApiRemovePhone
    \/ ApiEditPhone
    \/ ApiFindPhone
    \/ ApiAddBirthday
    \/ ApiUpcoming
    \/ ApiAddContact
    \/ ApiChangeContact

\* A program using the classes and the command functions.
SpecLib == Init /\ [][NextLib]_vars

(***************************************************************************)
(* Properties.                                                             *)
(***************************************************************************)
Decimal == {"0", "1", "2", "3", "4", "5", "6", "7", "8", "9"}

\* The digit-only form of a text, and whether Phone accepts it.
DigitsOf(text) ==
    LET dec(c) == c \in Decimal IN SelectSeq(text, dec)

TenDigits(text) == Len(DigitsOf(text)) = 10

RecordOf(data, name) ==
    data[CHOOSE i \in DOMAIN data : data[i].key = name].record

Line(op) == last.via = "main" /\ last.op = op

Call(op) == last.via = "api" /\ last.op = op

\* 10.06.2024
Monday10 == <<"1", "0", ".", "0", "6", ".", "2", "0", "2", "4">>

\* C1: every line read is answered by a printed response, and main() goes on
\* to the next line unless the command word is close or exit; no exception
\* ends the process.
C1_EveryLineAnswered ==
    /\ pc # "crashed"
    /\ last.via = "main" =>
          /\ out.kind = "print"
          /\ pc = (IF last.op \in {"close", "exit"} THEN "closed" ELSE "running")

\* The phones the add commands so far gave for a name, in command order.
PhonesAdded(name) ==
    LET ofName(e) == e[1] = name
        es == SelectSeq(added, ofName)
    IN  [i \in DOMAIN es |-> es[i][2]]

C2_OnlyAdds ==
    onlyAdds =>
        /\ \A i, j \in DOMAIN book : book[i].key = book[j].key => i = j
        /\ {book[i].key : i \in DOMAIN book} = {added[i][1] : i \in DOMAIN added}
        /\ \A i \in DOMAIN book :
              /\ book[i].record.name = book[i].key
              /\ book[i].record.phones = PhonesAdded(book[i].key)
        /\ Line("add") =>
              out.text = (IF Len(PhonesAdded(last.args[1])) > 1
                          THEN "Contact updated." ELSE "Contact added.")

C2_AddToExisting ==
    (/\ last'.via = "main" /\ last'.op = "add"
     /\ Len(last'.args) >= 2
     /\ TenDigits(last'.args[2])
     /\ \E i \in DOMAIN book : book[i].key = last'.args[1])
    => /\ Len(book') = Len(book)
       /\ \A i \in DOMAIN book :
             IF book[i].key = last'.args[1]
             THEN /\ book'[i].key = book[i].key
                  /\ book'[i].record.name = book[i].record.name
                  /\ book'[i].record.birthday = book[i].record.birthday
                  /\ book'[i].record.phones =
                         Append(book[i].record.phones, DigitsOf(last'.args[2]))
             ELSE book'[i] = book[i]
       /\ out'.kind = "print" /\ ~out'.error
       /\ out'.text = "Contact updated."

\* C2: in a session of add commands with valid phones the book holds one
\* record per distinct name, whose phones are the digit-only forms of the
\* phones added under that name, in command order; and in any session an add
\* with a valid phone for a name the book has appends to that record, keeps
\* its earlier phones and its birthday, and answers "Contact updated.".
C2_AddAccumulates == []C2_OnlyAdds /\ [][C2_AddToExisting]_vars

C2_Witness ==
    /\ onlyAdds
    /\ Line("add")
    /\ out.text = "Contact updated."
    /\ Len(book) = 2
    /\ \E i \in DOMAIN book : book[i].record.phones = <<Twos, Ones>>

\* What edit_phone(old, new) must do to a record's phones.
EditMain(phones, phones2, old, new, result) ==
    LET matches == {i \in DOMAIN phones : phones[i] = DigitsOf(old)}
    IN  /\ (matches # {} /\ TenDigits(new)) =>
              /\ result.kind = "return"
              /\ Len(phones2) = Len(phones)
              /\ \A i \in DOMAIN phones :
                    phones2[i] = IF i \in matches /\ \A j \in matches : i <= j
                                 THEN DigitsOf(new) ELSE phones[i]
        /\ matches = {} =>
              /\ result.kind = "raise"
              /\ result.text = OldPhoneMsg
              /\ phones2 = phones

\* After an edit of the only match, no phone equals the old value: the same
\* edit again raises.
RepeatFails(phones, phones2, old, new) ==
    (/\ Cardinality({i \in DOMAIN phones : phones[i] = DigitsOf(old)}) = 1
     /\ TenDigits(new))
    => \A i \in DOMAIN phones2 : phones2[i] # DigitsOf(old)

\* A step of edit_phone; always says whether the repeated edit is to fail
\* also when the new number is the old one.
EditStep(always) ==
    (last'.via = "api" /\ last'.op = "edit_phone") =>
        LET name == last'.args[1]
            old == last'.args[2]
            new == last'.args[3]
            phones == RecordOf(book, name).phones
            phones2 == RecordOf(book', name).phones
        IN  /\ EditMain(phones, phones2, old, new, out')
            /\ RecordOf(book', name).name = RecordOf(book, name).name
            /\ RecordOf(book', name).birthday = RecordOf(book, name).birthday
            /\ (always \/ DigitsOf(new) # DigitsOf(old)) =>
                   RepeatFails(phones, phones2, old, new)

\* C3 as claimed: edit_phone rewrites exactly the first match, raises "not
\* found" and changes nothing without a match, and an edit repeated after
\* it replaced the only match fails.
C3_EditPhoneAsClaimed == [][EditStep(TRUE)]_vars

\* C3, amended: the same, the repeated edit failing when the new number's
\* digit-only form differs from the old one's.
C3_EditPhone == [][EditStep(FALSE)]_vars

C3_Witness ==
    /\ Call("edit_phone")
    /\ last.args = <<Alice, OnesDashed, Twos>>
    /\ out.kind = "return"
    /\ RecordOf(book, Alice).phones = <<Twos, Ones>>

\* The record's birthday has its month and day on today or on one of the 7
\* days after it.
AnniversaryWithinWeek(record, today) ==
    /\ record.birthday # <<>>
    /\ \E k \in 0..7 :
          /\ AddDays(today, k).month = record.birthday[1].date.month
          /\ AddDays(today, k).day = record.birthday[1].date.day

TimesListed(name) ==
    Cardinality({j \in DOMAIN out.items : out.items[j].name = name})

\* C4: get_upcoming_birthdays lists a record, once, exactly when it has a
\* birthday whose next anniversary is 0 to 7 days after today.
C4_ListedIffWithinWeek ==
    Call("get_upcoming_birthdays") =>
        \A i \in DOMAIN book :
            TimesListed(book[i].key) =
                (IF AnniversaryWithinWeek(book[i].record, last.today)
                 THEN 1 ELSE 0)

\* C5: every congratulation date listed is a Monday to Friday: the
\* anniversary itself on a weekday, the anniversary plus 2 days on a
\* Saturday, plus 1 day on a Sunday.
C5_CongratulationOnWeekday ==
    Call("get_upcoming_birthdays") =>
        \A j \in DOMAIN out.items :
            LET shown == Strptime(out.items[j].congratulation_date)
                born == RecordOf(book, out.items[j].name).birthday[1].date
            IN  /\ shown.exc = NoExc
                /\ Weekday(shown.date) \in 0..4
                /\ \E k \in 0..7 :
                      LET anniversary == AddDays(last.today, k)
                      IN  /\ anniversary.month = born.month
                          /\ anniversary.day = born.day
                          /\ DaysBetween(shown.date, anniversary) =
                                 (IF Weekday(anniversary) = 5 THEN 2
                                  ELSE IF Weekday(anniversary) = 6 THEN 1
                                  ELSE 0)

C5_Witness ==
    /\ Call("get_upcoming_birthdays")
    /\ last.today = Date(2025, 6, 2)
    /\ Len(out.items) = 1
    /\ out.items[1].name = Alice
    /\ Weekday(Date(2025, 6, 8)) = 6
    /\ Strptime(out.items[1].congratulation_date).date = Date(2025, 6, 9)

\* C6: get_upcoming_birthdays returns a list for every today and every book
\* of birthdays Birthday accepted; it never raises.
C6_QueryNeverRaises ==
    Call("get_upcoming_birthdays") => out.kind = "return"

HasJune8(record) ==
    /\ record.birthday # <<>>
    /\ record.birthday[1].date.month = 6
    /\ record.birthday[1].date.day = 8

ShownOn(name, text) ==
    \E j \in DOMAIN out.items :
        out.items[j].name = name /\ out.items[j].congratulation_date = text

\* C7 as claimed: read on 10.06.2024, birthdays shows a contact born on
\* 08.06 with the Monday after the Saturday anniversary, 10.06.2024.
C7_ShownOnJune10AsClaimed ==
    (Line("birthdays") /\ last.today = Date(2024, 6, 10)) =>
        \A i \in DOMAIN book :
            HasJune8(book[i].record) => ShownOn(book[i].key, Monday10)

\* C7, amended: read on 10.06.2024, birthdays does not show a contact born
\* on 08.06 (the 2024 anniversary is past, the next is 363 days away); read
\* from 01.06.2024 to 08.06.2024 it answers with an error or shows the
\* contact, once, with 10.06.2024, the Monday 2 days after Saturday
\* 08.06.2024.
C7_ShownBeforeJune8 ==
    Line("birthdays") =>
        \A i \in DOMAIN book :
            HasJune8(book[i].record) =>
                /\ last.today = Date(2024, 6, 10) =>
                      TimesListed(book[i].key) = 0
                /\ (/\ last.today.year = 2024 /\ last.today.month = 6
                    /\ last.today.day \in 1..8) =>
                      \/ out.error
                      \/ /\ TimesListed(book[i].key) = 1
                         /\ ShownOn(book[i].key, Monday10)

C7_Witness ==
    /\ Line("birthdays")
    /\ last.today = Date(2024, 6, 10)
    /\ \E i \in DOMAIN book : HasJune8(book[i].record)
    /\ out.text = "No upcoming birthdays this week."

C8_AddRecordStep ==
    (last'.via = "api" /\ last'.op = "add_record") =>
        LET r == last'.args[1]
            at == {i \in DOMAIN book' : book'[i].key = r.name}
        IN  /\ Cardinality(at) = 1
            /\ \A i \in at : book'[i].record = r
            /\ {book'[i].key : i \in DOMAIN book'} =
                   {book[i].key : i \in DOMAIN book} \cup {r.name}
            /\ \A i \in DOMAIN book :
                   book[i].key # r.name => book'[i] = book[i]

\* C8: after add_record(r) the book holds r, as given, under r's name and
\* under no other entry (a record the name had before is gone whole); the
\* name is one key; every other key keeps its record and its place.
C8_AddRecordReplaces == [][C8_AddRecordStep]_vars

\* Bob's record was stored by the last call and stands before Alice's: the
\* key was in the book already, and the call replaced its record.
C8_Witness ==
    /\ Call("add_record")
    /\ Len(book) = 2
    /\ book[1].key = Bob /\ book[2].key = Alice
    /\ last.args[1].name = Bob
    /\ last.args[1].phones = <<>>
    /\ book[2].record.phones # <<>>

C10_ErrorStep ==
    (last'.via = "main" /\ out'.kind = "print" /\ out'.error) => book' = book

\* C10: a command answered with "Error: ..." leaves the book as it was:
\* the same names, and for each its phones and its birthday.
C10_ErrorLeavesBookUnchanged == [][C10_ErrorStep]_vars

=============================================================================
